---- MODULE Spec2Model ----
(***************************************************************************)
(* Model of cfg_parser.cpp: the pipeline of main() over an in-memory       *)
(* grammar: left factoring, removal of immediate left recursion, FIRST     *)
(* sets, FOLLOW sets and the LL(1) parsing table.                          *)
(*                                                                         *)
(* A std::string is a sequence of bytes; a byte is written as a one-       *)
(* element TLA+ string, except the two bytes of the UTF-8 encoding of the  *)
(* epsilon sign, written "xCE" and "xB5".  A std::map<string, T> is a      *)
(* function whose domain is a finite set of such strings, iterated in the  *)
(* order of std::string's operator<.  A std::vector is a sequence.         *)
(***************************************************************************)
EXTENDS Integers, Sequences, FiniteSets, TLC

VARIABLES pc, grammar, startSymbol, factoredGrammar, newNTcount, allocated,
          finalGrammar, it, firstSets, followSets, changed, parsingTable

vars == <<pc, grammar, startSymbol, factoredGrammar, newNTcount, allocated,
          finalGrammar, it, firstSets, followSets, changed, parsingTable>>

-----------------------------------------------------------------------------
(* Bytes and strings                                                       *)

\* The value of a byte as unsigned char, which std::string's operator< compares.
Code(c) ==
    CASE c = "\t" -> 9
      [] c = " " -> 32
      [] c = "$" -> 36
      [] c = "'" -> 39
      [] c = "0" -> 48 [] c = "1" -> 49 [] c = "2" -> 50 [] c = "3" -> 51
      [] c = "4" -> 52 [] c = "5" -> 53 [] c = "6" -> 54 [] c = "7" -> 55
      [] c = "8" -> 56 [] c = "9" -> 57
      [] c = "A" -> 65 [] c = "B" -> 66 [] c = "S" -> 83
      [] c = "a" -> 97 [] c = "b" -> 98 [] c = "c" -> 99 [] c = "d" -> 100
      [] c = "|" -> 124
      [] c = "xB5" -> 181
      [] c = "xCE" -> 206

\* std::string operator<: lexicographic on bytes, a proper prefix is smaller.
RECURSIVE StrLess(_, _)
StrLess(s, t) ==
    IF t = <<>> THEN FALSE
    ELSE IF s = <<>> THEN TRUE
    ELSE IF Head(s) = Head(t) THEN StrLess(Tail(s), Tail(t))
    ELSE Code(Head(s)) < Code(Head(t))

\* The keys of a std::map in iteration order.
RECURSIVE SortKeys(_)
SortKeys(S) ==
    IF S = {} THEN <<>>
    ELSE LET m == CHOOSE x \in S : \A y \in S \ {x} : StrLess(x, y)
         IN  <<m>> \o SortKeys(S \ {m})

Keys(m) == SortKeys(DOMAIN m)

\* map[k] = v
MapPut(m, k, v) == [x \in (DOMAIN m) \cup {k} |-> IF x = k THEN v ELSE m[x]]

\* map[k] as an rvalue of a non-const map: a missing key reads as the default d.
MapGet(m, k, d) == IF k \in DOMAIN m THEN m[k] ELSE d

EmptyMap == [x \in {} |-> <<>>]

Epsilon == <<"xCE", "xB5">>
EndMarker == <<"$">>
Prime == <<"'">>

IsBlank(c) == c = " " \/ c = "\t"

\* token.substr(start, end - start + 1) between the first and the last
\* byte that is neither a space nor a tab; <<>> when there is none.
RECURSIVE TrimLeft(_)
TrimLeft(s) ==
    IF s = <<>> THEN <<>>
    ELSE IF IsBlank(Head(s)) THEN TrimLeft(Tail(s)) ELSE s

RECURSIVE TrimRight(_)
TrimRight(s) ==
    IF s = <<>> THEN <<>>
    ELSE IF IsBlank(s[Len(s)]) THEN TrimRight(SubSeq(s, 1, Len(s) - 1)) ELSE s

Trim(s) == TrimRight(TrimLeft(s))

\* The pieces getline(iss, token, delimiter) yields: the text between
\* delimiters; nothing after a final delimiter or for the empty string.
RECURSIVE Pieces(_, _, _)
Pieces(s, delimiter, cur) ==
    IF s = <<>> THEN (IF cur = <<>> THEN <<>> ELSE <<cur>>)
    ELSE IF Head(s) = delimiter THEN <<cur>> \o Pieces(Tail(s), delimiter, <<>>)
    ELSE Pieces(Tail(s), delimiter, Append(cur, Head(s)))

RECURSIVE KeepTrimmed(_)
KeepTrimmed(ps) ==
    IF ps = <<>> THEN <<>>
    ELSE LET t == Trim(Head(ps))
         IN  (IF t = <<>> THEN <<>> ELSE <<t>>) \o KeepTrimmed(Tail(ps))

split(s, delimiter) == KeepTrimmed(Pieces(s, delimiter, <<>>))

\* std::to_string of a non-negative int.
Digit(n) == <<<<"0">>, <<"1">>, <<"2">>, <<"3">>, <<"4">>,
              <<"5">>, <<"6">>, <<"7">>, <<"8">>, <<"9">>>>[n + 1]

RECURSIVE to_string(_)
to_string(n) == IF n < 10 THEN Digit(n) ELSE to_string(n \div 10) \o Digit(n % 10)

\* oss << token << " " for every token.
RECURSIVE EachThenSpace(_)
EachThenSpace(tokens) ==
    IF tokens = <<>> THEN <<>>
    ELSE Head(tokens) \o <<" ">> \o EachThenSpace(Tail(tokens))

-----------------------------------------------------------------------------
(* Phase 1: left factoring                                                 *)

\* The longest common prefix of two token vectors.
RECURSIVE commonPrefix(_, _)
commonPrefix(a, b) ==
    IF a # <<>> /\ b # <<>> /\ Head(a) = Head(b)
    THEN <<Head(a)>> \o commonPrefix(Tail(a), Tail(b))
    ELSE <<>>

\* split(prod, ' ') of every production.
Tokenize(prods) == [i \in 1..Len(prods) |-> split(prods[i], " ")]

\* common = tokenized[0]; then reduced with each further production,
\* stopping as soon as it is empty.
RECURSIVE CommonFrom(_, _, _)
CommonFrom(common, tokenized, i) ==
    IF i > Len(tokenized) THEN common
    ELSE LET c == commonPrefix(common, tokenized[i])
         IN  IF c = <<>> THEN c ELSE CommonFrom(c, tokenized, i + 1)

CommonOfAll(tokenized) == CommonFrom(tokenized[1], tokenized, 2)

\* FreshName with the test newNTcount >= 1: every fresh name is numbered.
FreshNameAlwaysNumbered(nonTerminal, count) ==
    IF count >= 1 THEN nonTerminal \o Prime \o to_string(count)
    ELSE nonTerminal \o Prime

\* FreshName with the test newNTcount > 2: the second fresh name is bare too.
FreshNameFromThird(nonTerminal, count) ==
    IF count > 2 THEN nonTerminal \o Prime \o to_string(count)
    ELSE nonTerminal \o Prime

\* string newNT = nonTerminal + "'"; the counter is appended when it is above 1.
FreshName(nonTerminal, count) ==
    IF count > 1 THEN nonTerminal \o Prime \o to_string(count)
    ELSE nonTerminal \o Prime

\* The production of the new non-terminal for one tokenized alternative.
SuffixProd(tokens, n) ==
    LET suffix == SubSeq(tokens, n + 1, Len(tokens))
    IN  IF suffix = <<>> THEN Epsilon ELSE EachThenSpace(suffix)

\* leftFactor(nonTerminal, prods, newProds, newNTcount): the new value of
\* newProds and of newNTcount, and the fresh name when one was made.
leftFactor(nonTerminal, prods, newProds, count) ==
    IF Len(prods) < 2
    THEN [newProds |-> MapPut(newProds, nonTerminal, prods),
          newNTcount |-> count, newNT |-> <<>>]
    ELSE LET tokenized == Tokenize(prods)
             common == CommonOfAll(tokenized)
         IN  IF common # <<>>
             THEN LET newNT == FreshName(nonTerminal, count)
                      factoredProd == EachThenSpace(common) \o newNT
                      withA == MapPut(newProds, nonTerminal,
                                 Append(MapGet(newProds, nonTerminal, <<>>),
                                        factoredProd))
                      newNTProds == [i \in 1..Len(tokenized) |->
                                        SuffixProd(tokenized[i], Len(common))]
                  IN  [newProds |-> MapPut(withA, newNT, newNTProds),
                       newNTcount |-> count + 1, newNT |-> newNT]
             ELSE [newProds |-> MapPut(newProds, nonTerminal, prods),
                   newNTcount |-> count, newNT |-> <<>>]

-----------------------------------------------------------------------------
(* Phase 2: removal of immediate left recursion                            *)

IsRecursive(nonTerminal, prod) ==
    LET tokens == split(prod, " ")
    IN  tokens # <<>> /\ tokens[1] = nonTerminal

\* The recursive productions with the leading non-terminal removed.
RecursiveProds(nonTerminal, prods) ==
    LET rec == SelectSeq(prods, LAMBDA p : IsRecursive(nonTerminal, p))
    IN  [i \in 1..Len(rec) |-> EachThenSpace(Tail(split(rec[i], " ")))]

NonRecursiveProds(nonTerminal, prods) ==
    SelectSeq(prods, LAMBDA p : ~IsRecursive(nonTerminal, p))

\* oss << x << " " << newNT for every x.
AppendNT(xs, newNT) == [i \in 1..Len(xs) |-> xs[i] \o <<" ">> \o newNT]

\* leftRecursion that copies with newGrammar.insert, which leaves an entry
\* that is already there as it is.
leftRecursionInsertOnly(nonTerminal, prods, newGrammar) ==
    LET recursiveProds == RecursiveProds(nonTerminal, prods)
        nonRecursiveProds == NonRecursiveProds(nonTerminal, prods)
        newNT == nonTerminal \o Prime
    IN  IF recursiveProds = <<>>
        THEN (IF nonTerminal \in DOMAIN newGrammar THEN newGrammar
              ELSE MapPut(newGrammar, nonTerminal, prods))
        ELSE MapPut(MapPut(newGrammar, nonTerminal,
                           AppendNT(nonRecursiveProds, newNT)),
                    newNT,
                    Append(AppendNT(recursiveProds, newNT), Epsilon))

\* leftRecursion(nonTerminal, prods, newGrammar): the new value of newGrammar.
leftRecursion(nonTerminal, prods, newGrammar) ==
    LET recursiveProds == RecursiveProds(nonTerminal, prods)
        nonRecursiveProds == NonRecursiveProds(nonTerminal, prods)
        newNT == nonTerminal \o Prime
    IN  IF recursiveProds = <<>>
        THEN MapPut(newGrammar, nonTerminal, prods)
        ELSE MapPut(MapPut(newGrammar, nonTerminal,
                           AppendNT(nonRecursiveProds, newNT)),
                    newNT,
                    Append(AppendNT(recursiveProds, newNT), Epsilon))

-----------------------------------------------------------------------------
(* Phase 3: FIRST sets                                                     *)

\* InsertAll without the assignment changed = true.
InsertAllNoFlag(st, X, syms) ==
    [sets |-> [st.sets EXCEPT ![X] = @ \cup syms], changed |-> st.changed]

\* set.insert of every element of syms into sets[X]; changed is raised
\* when some insert reports a new element.
InsertAll(st, X, syms) ==
    IF syms \subseteq st.sets[X] THEN st
    ELSE [sets |-> [st.sets EXCEPT ![X] = @ \cup syms], changed |-> TRUE]

\* The scan of one production of X, token by token from the left.
RECURSIVE FirstScan(_, _, _, _)
FirstScan(g, X, tokens, st) ==
    IF tokens = <<>> THEN InsertAll(st, X, {Epsilon})
    ELSE LET token == Head(tokens)
         IN  IF token = Epsilon THEN InsertAll(st, X, {Epsilon})
             ELSE IF token \notin DOMAIN g THEN InsertAll(st, X, {token})
             ELSE LET st1 == InsertAll(st, X, st.sets[token] \ {Epsilon})
                  IN  IF Epsilon \notin st1.sets[token] THEN st1
                      ELSE FirstScan(g, X, Tail(tokens), st1)

\* The productions of X from the i-th on; one without tokens is skipped.
RECURSIVE FirstProds(_, _, _, _)
FirstProds(g, X, i, st) ==
    IF i > Len(g[X]) THEN st
    ELSE LET tokens == split(g[X][i], " ")
         IN  FirstProds(g, X, i + 1,
                        IF tokens = <<>> THEN st ELSE FirstScan(g, X, tokens, st))

RECURSIVE FirstRules(_, _, _)
FirstRules(g, keys, st) ==
    IF keys = <<>> THEN st
    ELSE FirstRules(g, Tail(keys), FirstProds(g, Head(keys), 1, st))

\* One run of the body of while (changed) in firstSet.
FirstPass(g, first) == FirstRules(g, Keys(g), [sets |-> first, changed |-> FALSE])

-----------------------------------------------------------------------------
(* Phase 4: FOLLOW sets                                                    *)

\* The while (true) loop that looks at the tokens after position i, from
\* position j on; it yields the new state and the flag addFollowA.
RECURSIVE FollowLook(_, _, _, _, _, _)
FollowLook(g, first, B, tokens, j, st) ==
    IF j <= Len(tokens)
    THEN LET beta == tokens[j]
         IN  IF beta \notin DOMAIN g
             THEN [st |-> InsertAll(st, B, {beta}), addFollowA |-> FALSE]
             ELSE LET st1 == InsertAll(st, B, first[beta] \ {Epsilon})
                  IN  IF Epsilon \notin first[beta]
                      THEN [st |-> st1, addFollowA |-> FALSE]
                      ELSE FollowLook(g, first, B, tokens, j + 1, st1)
    ELSE [st |-> st, addFollowA |-> TRUE]

\* The positions i, i+1, ... of one production of A.
RECURSIVE FollowTokens(_, _, _, _, _, _)
FollowTokens(g, first, A, tokens, i, st) ==
    IF i > Len(tokens) THEN st
    ELSE LET B == tokens[i]
         IN  IF B \in DOMAIN g
             THEN LET r == FollowLook(g, first, B, tokens, i + 1, st)
                      st2 == IF r.addFollowA
                             THEN InsertAll(r.st, B, r.st.sets[A])
                             ELSE r.st
                  IN  FollowTokens(g, first, A, tokens, i + 1, st2)
             ELSE FollowTokens(g, first, A, tokens, i + 1, st)

RECURSIVE FollowProds(_, _, _, _, _)
FollowProds(g, first, A, i, st) ==
    IF i > Len(g[A]) THEN st
    ELSE FollowProds(g, first, A, i + 1,
                     FollowTokens(g, first, A, split(g[A][i], " "), 1, st))

RECURSIVE FollowRules(_, _, _, _)
FollowRules(g, first, keys, st) ==
    IF keys = <<>> THEN st
    ELSE FollowRules(g, first, Tail(keys), FollowProds(g, first, Head(keys), 1, st))

\* One run of the body of while (changed) in computeFollowSets.
FollowPass(g, first, follow) ==
    FollowRules(g, first, Keys(g), [sets |-> follow, changed |-> FALSE])

\* FollowInit without follow[startSymbol].insert("$").
FollowInitNoMarker(g, start) == [A \in DOMAIN g |-> {}]

\* The FOLLOW map before the loop: empty sets, and "$" for the start symbol.
FollowInit(g, start) ==
    MapPut([A \in DOMAIN g |-> {}], start, {EndMarker})

-----------------------------------------------------------------------------
(* Phase 5: the parsing table                                              *)

\* computeFirstOfString(tokens, first, grammar): a token that is no key of
\* the grammar (the epsilon token too) is a terminal.
RECURSIVE computeFirstOfString(_, _, _)
computeFirstOfString(tokens, first, g) ==
    IF tokens = <<>> THEN {Epsilon}
    ELSE LET token == Head(tokens)
         IN  IF token \notin DOMAIN g THEN {token}
             ELSE (first[token] \ {Epsilon}) \cup
                  (IF Epsilon \notin first[token] THEN {}
                   ELSE computeFirstOfString(Tail(tokens), first, g))

\* The cells one production writes.
CellsOf(prod, A, first, follow, g) ==
    LET firstAlpha == computeFirstOfString(split(prod, " "), first, g)
    IN  (firstAlpha \ {Epsilon}) \cup
        (IF Epsilon \in firstAlpha THEN MapGet(follow, A, {}) ELSE {})

\* WriteCells with map::insert: a cell that is already filled is kept.
WriteCellsKeepFirst(table, A, cells, prod) ==
    IF cells = {} THEN table
    ELSE LET row == MapGet(table, A, [t \in {} |-> <<>>])
         IN  MapPut(table, A,
                    [t \in (DOMAIN row) \cup cells |->
                        IF t \in DOMAIN row THEN row[t] ELSE prod])

\* parsingTable[nonTerminal][terminal] = prod for every terminal of cells.
WriteCells(table, A, cells, prod) ==
    IF cells = {} THEN table
    ELSE LET row == MapGet(table, A, [t \in {} |-> <<>>])
         IN  MapPut(table, A,
                    [t \in (DOMAIN row) \cup cells |->
                        IF t \in cells THEN prod ELSE row[t]])

RECURSIVE TableProds(_, _, _, _, _, _)
TableProds(g, first, follow, A, i, table) ==
    IF i > Len(g[A]) THEN table
    ELSE TableProds(g, first, follow, A, i + 1,
                    WriteCells(table, A, CellsOf(g[A][i], A, first, follow, g), g[A][i]))

RECURSIVE TableRules(_, _, _, _, _)
TableRules(g, first, follow, keys, table) ==
    IF keys = <<>> THEN table
    ELSE TableRules(g, first, follow, Tail(keys),
                    TableProds(g, first, follow, Head(keys), 1, table))

\* The loop of main that fills parsingTable.
BuildParsingTable(g, first, follow) ==
    TableRules(g, first, follow, Keys(g), [A \in {} |-> <<>>])

-----------------------------------------------------------------------------
(* The grammars main() is run on                                           *)

\* The largest number of symbols on the right-hand sides of an input grammar.
MaxTokens == 3

NameA == <<"A">>
NameB == <<"B">>
NameS == <<"S">>
NameAp == NameA \o Prime

\* A production as the loader stores it: its tokens, one space between two.
RECURSIVE Join(_)
Join(tokens) ==
    IF Len(tokens) = 1 THEN tokens[1]
    ELSE tokens[1] \o <<" ">> \o Join(Tail(tokens))

\* The symbols of an input grammar whose second name is X: the names A
\* and X, the terminal a and the epsilon token.
TokensOf(X) == {NameA, X, <<"a">>, Epsilon}

ProdsOfLen(l, X) == {Join(ts) : ts \in [1..l -> TokensOf(X)]}

\* The production lists with n symbols in all, no production empty.
RECURSIVE ProdLists(_, _)
ProdLists(n, X) ==
    {<<p>> : p \in ProdsOfLen(n, X)} \cup
    UNION {{<<p>> \o r : p \in ProdsOfLen(l, X), r \in ProdLists(n - l, X)} :
              l \in 1..(n - 1)}

\* The grammars over A, X, a and epsilon with one line (A) or two (A and
\* X) and at most MaxTokens symbols on the right-hand sides.
GrammarsOver(X) ==
    UNION {{[k \in {NameA} |-> l] : l \in ProdLists(n, X)} : n \in 1..MaxTokens}
    \cup
    UNION {UNION {{[k \in {NameA, X} |-> IF k = NameA THEN l ELSE m] :
                      l \in ProdLists(n, X), m \in ProdLists(t - n, X)} :
                   n \in 1..(t - 1)} : t \in 2..MaxTokens}

\* S -> A a | A b, A -> c | d
ScenarioGrammar ==
    [k \in {NameS, NameA} |->
        IF k = NameS THEN <<Join(<<NameA, <<"a">>>>), Join(<<NameA, <<"b">>>>)>>
        ELSE <<<<"c">>, <<"d">>>>]

\* Three lines, each with a common prefix:
\* A -> a | a a, B -> b | b, S -> A a | A b
ThreeLineGrammar ==
    [k \in {NameA, NameB, NameS} |->
        IF k = NameA THEN <<<<"a">>, Join(<<<<"a">>, <<"a">>>>)>>
        ELSE IF k = NameB THEN <<<<"b">>, <<"b">>>>
        ELSE <<Join(<<NameA, <<"a">>>>), Join(<<NameA, <<"b">>>>)>>]

\* A grammar whose terminal A' has the name left factoring gives to the
\* new non-terminal of A:  A -> B A' | B a, B -> epsilon
PrimedTerminalGrammar ==
    [k \in {NameA, NameB} |->
        IF k = NameA THEN <<Join(<<NameB, NameAp>>), Join(<<NameB, <<"a">>>>)>>
        ELSE <<Epsilon>>]

InputGrammars ==
    GrammarsOver(NameAp) \cup GrammarsOver(NameB)
        \cup {ScenarioGrammar, ThreeLineGrammar, PrimedTerminalGrammar}

-----------------------------------------------------------------------------
(* main()                                                                  *)

\* The state when the grammar file has been read: any line may have been
\* the first one, whose non-terminal is the start symbol.
Init ==
    /\ grammar \in InputGrammars
    /\ startSymbol \in DOMAIN grammar
    /\ pc = "factor"
    /\ it = 1
    /\ factoredGrammar = EmptyMap
    /\ newNTcount = 1
    /\ allocated = <<>>
    /\ finalGrammar = EmptyMap
    /\ firstSets = EmptyMap
    /\ followSets = EmptyMap
    /\ changed = FALSE
    /\ parsingTable = EmptyMap

\* One turn of the loop of phase 1: leftFactor on the it-th rule of grammar.
LeftFactorStep ==
    /\ pc = "factor"
    /\ LET keys == Keys(grammar)
           nonTerminal == keys[it]
           r == leftFactor(nonTerminal, grammar[nonTerminal], factoredGrammar, newNTcount)
       IN  /\ factoredGrammar' = r.newProds
           /\ newNTcount' = r.newNTcount
           /\ allocated' = IF r.newNT = <<>> THEN allocated
                           ELSE Append(allocated, [nonTerminal |-> nonTerminal,
                                                   newNT |-> r.newNT,
                                                   count |-> newNTcount])
           /\ IF it < Len(keys)
              THEN it' = it + 1 /\ pc' = pc
              ELSE it' = 1 /\ pc' = "recursion"
    /\ UNCHANGED <<grammar, startSymbol, finalGrammar, firstSets, followSets,
                   changed, parsingTable>>

\* One turn of the loop of phase 2: leftRecursion on the it-th rule of
\* factoredGrammar.
LeftRecursionStep ==
    /\ pc = "recursion"
    /\ LET keys == Keys(factoredGrammar)
           nonTerminal == keys[it]
       IN  /\ finalGrammar' = leftRecursion(nonTerminal, factoredGrammar[nonTerminal],
                                            finalGrammar)
           /\ IF it < Len(keys)
              THEN it' = it + 1 /\ pc' = pc
              ELSE it' = 1 /\ pc' = "firstSet"
    /\ UNCHANGED <<grammar, startSymbol, factoredGrammar, newNTcount, allocated,
                   firstSets, followSets, changed, parsingTable>>

\* firstSet is entered: an empty set for every rule, changed = true.
FirstSetBegin ==
    /\ pc = "firstSet"
    /\ firstSets' = [X \in DOMAIN finalGrammar |-> {}]
    /\ changed' = TRUE
    /\ pc' = "firstLoop"
    /\ UNCHANGED <<grammar, startSymbol, factoredGrammar, newNTcount, allocated,
                   finalGrammar, it, followSets, parsingTable>>

\* One pass of the loop of firstSet.
FirstSetPass ==
    /\ pc = "firstLoop"
    /\ changed
    /\ LET st == FirstPass(finalGrammar, firstSets)
       IN  firstSets' = st.sets /\ changed' = st.changed
    /\ UNCHANGED <<pc, grammar, startSymbol, factoredGrammar, newNTcount, allocated,
                   finalGrammar, it, followSets, parsingTable>>

\* firstSet returns and computeFollowSets is entered: empty sets, "$" in
\* the set of the start symbol, changed = true.
FollowBegin ==
    /\ pc = "firstLoop"
    /\ ~changed
    /\ followSets' = FollowInit(finalGrammar, startSymbol)
    /\ changed' = TRUE
    /\ pc' = "followLoop"
    /\ UNCHANGED <<grammar, startSymbol, factoredGrammar, newNTcount, allocated,
                   finalGrammar, it, firstSets, parsingTable>>

\* One pass of the loop of computeFollowSets.
FollowSetPass ==
    /\ pc = "followLoop"
    /\ changed
    /\ LET st == FollowPass(finalGrammar, firstSets, followSets)
       IN  followSets' = st.sets /\ changed' = st.changed
    /\ UNCHANGED <<pc, grammar, startSymbol, factoredGrammar, newNTcount, allocated,
                   finalGrammar, it, firstSets, parsingTable>>

\* computeFollowSets returns and phase 5 fills the parsing table.
BuildTable ==
    /\ pc = "followLoop"
    /\ ~changed
    /\ parsingTable' = BuildParsingTable(finalGrammar, firstSets, followSets)
    /\ pc' = "done"
    /\ UNCHANGED <<grammar, startSymbol, factoredGrammar, newNTcount, allocated,
                   finalGrammar, it, firstSets, followSets, changed>>

Next ==
    \/ LeftFactorStep
    \/ LeftRecursionStep
    \/ FirstSetBegin
    \/ FirstSetPass
    \/ FollowBegin
    \/ FollowSetPass
    \/ BuildTable

Spec == Init /\ [][Next]_vars

-----------------------------------------------------------------------------
(* Notions the properties are stated with                                  *)

\* The symbols of a production.
Symbols(prod) == split(prod, " ")

FactoringDone == pc # "factor"
EliminationDone == pc \notin {"factor", "recursion"}
FirstDone == pc \in {"followLoop", "done"}

\* Each production is the single symbol epsilon or has no epsilon in it.
WellFormed(g) ==
    \A A \in DOMAIN g : \A i \in 1..Len(g[A]) :
        LET ts == Symbols(g[A][i])
        IN  /\ ts # <<>>
            /\ ts = <<Epsilon>> \/ \A j \in 1..Len(ts) : ts[j] # Epsilon

\* The non-terminals that derive the empty string: the least set N with
\* A in N when a production of A has only epsilon and members of N.
RECURSIVE NullableFrom(_, _)
NullableFrom(g, N) ==
    LET N1 == N \cup {A \in DOMAIN g : \E i \in 1..Len(g[A]) :
                        \A t \in {Symbols(g[A][i])[j] : j \in 1..Len(Symbols(g[A][i]))} :
                            t = Epsilon \/ t \in N}
    IN  IF N1 = N THEN N ELSE NullableFrom(g, N1)

Nullable(g) == NullableFrom(g, {})

Vanishes(g, t) == t = Epsilon \/ t \in Nullable(g)

\* The symbols a symbol sequence can begin with in one step: every symbol
\* that has only vanishing symbols before it.
Leading(g, ts) ==
    {ts[j] : j \in {k \in 1..Len(ts) :
                       /\ ts[k] # Epsilon
                       /\ \A h \in 1..(k - 1) : Vanishes(g, ts[h])}}

\* The symbols a string derived from one of the symbols of S can begin with.
RECURSIVE LeadingClosure(_, _)
LeadingClosure(g, S) ==
    LET S1 == S \cup UNION {UNION {Leading(g, Symbols(g[A][i])) : i \in 1..Len(g[A])} :
                               A \in S \cap DOMAIN g}
    IN  IF S1 = S THEN S ELSE LeadingClosure(g, S1)

\* FIRST of a symbol sequence by its definition: the terminals that can
\* begin a string derived from it, and epsilon when it derives the empty string.
DerivedFirst(g, ts) ==
    (LeadingClosure(g, Leading(g, ts)) \ DOMAIN g)
        \cup (IF \A j \in 1..Len(ts) : Vanishes(g, ts[j]) THEN {Epsilon} ELSE {})

\* FOLLOW by its definition: the least sets with "$" after the start
\* symbol, FIRST of what follows B after B, and FOLLOW(A) after a B that
\* ends a production of A or is followed by vanishing symbols only.
RECURSIVE DerivedFollowFrom(_, _)
DerivedFollowFrom(g, F) ==
    LET Rest(ts, j) == SubSeq(ts, j + 1, Len(ts))
        Adds(B) ==
            UNION {UNION {UNION {(DerivedFirst(g, Rest(Symbols(g[A][i]), j)) \ {Epsilon})
                                    \cup (IF Epsilon \in DerivedFirst(g, Rest(Symbols(g[A][i]), j))
                                          THEN F[A] ELSE {}) :
                                 j \in {k \in 1..Len(Symbols(g[A][i])) :
                                           Symbols(g[A][i])[k] = B}} :
                          i \in 1..Len(g[A])} :
                   A \in DOMAIN g}
        F1 == [B \in DOMAIN g |-> F[B] \cup Adds(B)]
    IN  IF F1 = F THEN F ELSE DerivedFollowFrom(g, F1)

DerivedFollow(g, start) ==
    DerivedFollowFrom(g, [B \in DOMAIN g |-> IF B = start THEN {EndMarker} ELSE {}])

\* The terminals and the end marker on which a production p of A is
\* chosen, given FIRST of p and FOLLOW of A.
Selects(firstOfP, followOfA) ==
    (firstOfP \ {Epsilon}) \cup (IF Epsilon \in firstOfP THEN followOfA ELSE {})

\* The non-terminals that derive a string of terminals.
RECURSIVE ProductiveFrom(_, _)
ProductiveFrom(g, P) ==
    LET P1 == P \cup {A \in DOMAIN g : \E i \in 1..Len(g[A]) :
                        \A t \in {Symbols(g[A][i])[j] : j \in 1..Len(Symbols(g[A][i]))} :
                            t \notin DOMAIN g \/ t \in P}
    IN  IF P1 = P THEN P ELSE ProductiveFrom(g, P1)

\* The non-terminals that occur in a string derived from those of R.
RECURSIVE ReachableFrom(_, _)
ReachableFrom(g, R) ==
    LET R1 == R \cup (DOMAIN g \cap
                UNION {UNION {{Symbols(g[A][i])[j] : j \in 1..Len(Symbols(g[A][i]))} :
                                 i \in 1..Len(g[A])} : A \in R})
    IN  IF R1 = R THEN R ELSE ReachableFrom(g, R1)

\* No useless non-terminal: each is reached from the start symbol and
\* derives a string of terminals.
Reduced(g, start) ==
    /\ ProductiveFrom(g, {}) = DOMAIN g
    /\ ReachableFrom(g, {start}) = DOMAIN g

\* The LL(1) condition on a well-formed grammar without useless
\* non-terminals: no two productions of a non-terminal are chosen on the
\* same terminal, and at most one of them derives the empty string.
IsLL1(g, start) ==
    /\ WellFormed(g)
    /\ Reduced(g, start)
    /\ \A A \in DOMAIN g : \A i, j \in 1..Len(g[A]) :
        i # j =>
            LET fi == DerivedFirst(g, Symbols(g[A][i]))
                fj == DerivedFirst(g, Symbols(g[A][j]))
                fo == DerivedFollow(g, start)[A]
            IN  /\ Selects(fi, fo) \cap Selects(fj, fo) = {}
                /\ ~(Epsilon \in fi /\ Epsilon \in fj)

-----------------------------------------------------------------------------
(* Properties                                                              *)

\* C1: once left factoring and left-recursion removal have run over the
\* whole grammar, no production of a non-terminal A of the final grammar
\* has A as its first symbol.
C1_NoDirectLeftRecursion ==
    EliminationDone =>
        \A A \in DOMAIN finalGrammar : \A i \in 1..Len(finalGrammar[A]) :
            LET ts == Symbols(finalGrammar[A][i])
            IN  ts = <<>> \/ ts[1] # A

\* Two productions of A with different symbols that are both written to
\* one cell of A's row.
Overwrites(A) ==
    \E i, j \in 1..Len(finalGrammar[A]) :
        /\ i < j
        /\ Symbols(finalGrammar[A][i]) # Symbols(finalGrammar[A][j])
        /\ CellsOf(finalGrammar[A][i], A, firstSets, followSets, finalGrammar)
             \cap CellsOf(finalGrammar[A][j], A, firstSets, followSets, finalGrammar) # {}

\* C2: when the grammar that was read is LL(1), no cell of the parsing
\* table of the final grammar is written by two different productions.
C2_NoOverwriteForLL1 ==
    (pc = "done" /\ IsLL1(grammar, startSymbol)) =>
        \A A \in DOMAIN finalGrammar : ~Overwrites(A)

IsPrefixOf(p, ts) == Len(p) <= Len(ts) /\ SubSeq(ts, 1, Len(p)) = p

\* The longest symbol sequence that is a prefix of every alternative.
LongestCommon(tss) ==
    LET common == {p \in {SubSeq(tss[1], 1, n) : n \in 0..Len(tss[1])} :
                      \A i \in 1..Len(tss) : IsPrefixOf(p, tss[i])}
    IN  CHOOSE p \in common : \A q \in common : Len(q) <= Len(p)

\* C3: after the left-factoring pass, a non-terminal A of the raw grammar
\* with two or more alternatives that all share a non-empty prefix has the
\* single production "longest common prefix, then the fresh non-terminal",
\* and the fresh non-terminal has one production per alternative of A, in
\* order: the rest of the alternative, or epsilon when nothing is left.
C3_FactoredByLongestPrefix ==
    FactoringDone =>
        \A A \in DOMAIN grammar :
            LET tss == [i \in 1..Len(grammar[A]) |-> Symbols(grammar[A][i])]
                prefix == LongestCommon(tss)
                Rest(i) == SubSeq(tss[i], Len(prefix) + 1, Len(tss[i]))
            IN  (Len(grammar[A]) >= 2 /\ prefix # <<>>) =>
                    \E k \in 1..Len(allocated) :
                        /\ allocated[k].nonTerminal = A
                        /\ LET F == allocated[k].newNT
                           IN  /\ A \in DOMAIN factoredGrammar
                               /\ Len(factoredGrammar[A]) = 1
                               /\ Symbols(factoredGrammar[A][1]) = prefix \o <<F>>
                               /\ F \in DOMAIN factoredGrammar
                               /\ Len(factoredGrammar[F]) = Len(tss)
                               /\ \A i \in 1..Len(tss) :
                                     Symbols(factoredGrammar[F][i]) =
                                        IF Rest(i) = <<>> THEN <<Epsilon>> ELSE Rest(i)

\* C4: for a well-formed input grammar, the FIRST map computed over the
\* final grammar gives every non-terminal X exactly the terminals that can
\* begin a string derived from X, and epsilon exactly when X derives the
\* empty string.
C4_FirstIsExact ==
    (FirstDone /\ WellFormed(grammar)) =>
        \A X \in DOMAIN finalGrammar :
            firstSets[X] = DerivedFirst(finalGrammar, <<X>>)

\* C5: "$" is in FOLLOW of the start symbol when the FOLLOW computation
\* starts, after every pass of its loop and in the map it returns.
C5_EndMarkerInFollowOfStart ==
    pc \in {"followLoop", "done"} =>
        /\ startSymbol \in DOMAIN followSets
        /\ EndMarker \in followSets[startSymbol]

\* The FOLLOW map has been returned for a start symbol whose productions
\* the transformations rewrote.
C5_Witness ==
    /\ pc = "done"
    /\ finalGrammar[startSymbol] # grammar[startSymbol]
    /\ EndMarker \in followSets[startSymbol]
    /\ \E A \in DOMAIN followSets : A # startSymbol /\ followSets[A] # {}

\* The symbols of the right-hand sides of a grammar.
AllSymbols(g) ==
    UNION {UNION {{Symbols(g[A][i])[j] : j \in 1..Len(Symbols(g[A][i]))} :
                     i \in 1..Len(g[A])} : A \in DOMAIN g}

\* The productions of A, by position, that claim the cell (A, t).
Claimants(A, t) ==
    {i \in 1..Len(finalGrammar[A]) :
        LET f == computeFirstOfString(Symbols(finalGrammar[A][i]), firstSets, finalGrammar)
        IN  \/ t \in f \ {Epsilon}
            \/ Epsilon \in f /\ t \in followSets[A]}

HasEntry(A, t) == A \in DOMAIN parsingTable /\ t \in DOMAIN parsingTable[A]

Largest(S) == CHOOSE n \in S : \A m \in S : m <= n

\* C6: the table has an entry at (A, t) exactly when some production of A
\* has t in FIRST(p) minus epsilon, or epsilon in FIRST(p) and t in
\* FOLLOW(A); the entry is the last such production of A.
C6_TableEntries ==
    pc = "done" =>
        /\ DOMAIN parsingTable \subseteq DOMAIN finalGrammar
        /\ \A A \in DOMAIN finalGrammar :
             \A t \in (AllSymbols(finalGrammar) \ DOMAIN finalGrammar)
                        \cup {EndMarker, Epsilon}
                        \cup (IF A \in DOMAIN parsingTable THEN DOMAIN parsingTable[A] ELSE {}) :
                /\ HasEntry(A, t) <=> Claimants(A, t) # {}
                /\ HasEntry(A, t) =>
                      parsingTable[A][t] = finalGrammar[A][Largest(Claimants(A, t))]

\* A cell claimed by two productions that differ holds the later one, and
\* a cell is filled through FOLLOW.
C6_Witness ==
    /\ pc = "done"
    /\ \E A \in DOMAIN parsingTable : \E t \in DOMAIN parsingTable[A] :
          \E i, j \in Claimants(A, t) :
              /\ i < j
              /\ finalGrammar[A][i] # finalGrammar[A][j]
              /\ parsingTable[A][t] = finalGrammar[A][j]
    /\ \E A \in DOMAIN finalGrammar : HasEntry(A, EndMarker)

SetsGrow(old, new) ==
    /\ DOMAIN new = DOMAIN old
    /\ \A X \in DOMAIN old : old[X] \subseteq new[X]

\* The finite symbol universe: the symbols of the final grammar, epsilon
\* and "$".
Universe == AllSymbols(finalGrammar) \cup {Epsilon, EndMarker}

WithinUniverse(sets) ==
    /\ DOMAIN sets = DOMAIN finalGrammar
    /\ \A X \in DOMAIN sets : sets[X] \subseteq Universe

RECURSIVE SumOver(_, _)
SumOver(sets, S) ==
    IF S = {} THEN 0
    ELSE LET X == CHOOSE Y \in S : TRUE
         IN  Cardinality(sets[X]) + SumOver(sets, S \ {X})

\* The number of elements of all the sets of a map.
Size(sets) == SumOver(sets, DOMAIN sets)

\* What one pass does to the sets of its loop: it only adds elements, the
\* sets stay within the universe, and changed tells whether any set grew.
PassStep(old, new) ==
    /\ SetsGrow(old, new)
    /\ WithinUniverse(new)
    /\ Size(new) <= Cardinality(DOMAIN finalGrammar) * Cardinality(Universe)
    /\ changed' <=> Size(new) > Size(old)

LoopStep ==
    /\ (pc = "firstLoop" /\ pc' = "firstLoop") => PassStep(firstSets, firstSets')
    /\ (pc = "followLoop" /\ pc' = "followLoop") => PassStep(followSets, followSets')
    /\ (pc \in {"firstLoop", "followLoop"} /\ pc' # pc) <=>
          (pc \in {"firstLoop", "followLoop"} /\ ~changed)

\* C7: the FIRST loop and the FOLLOW loop end: every pass only adds
\* elements to sets that stay within the finite symbol universe, a pass
\* that reports a change has made the sets larger, and the loop is left
\* by the step after the first pass in which no set changed; so a loop
\* runs at most (non-terminals x universe) + 1 passes.
C7_LoopsTerminate == [][LoopStep]_vars

\* Both loops have run passes that added elements and have been left.
C7_Witness ==
    /\ pc = "done"
    /\ \E X \in DOMAIN firstSets : Cardinality(firstSets[X]) >= 2
    /\ \E X \in DOMAIN followSets : X # startSymbol /\ followSets[X] # {}

\* A grammar and a table as symbol sequences.
AsSymbols(g) == [A \in DOMAIN g |-> [i \in 1..Len(g[A]) |-> Symbols(g[A][i])]]
TableAsSymbols(t) == [A \in DOMAIN t |-> [x \in DOMAIN t[A] |-> Symbols(t[A][x])]]

ScenarioRan == grammar = ScenarioGrammar /\ startSymbol = NameS /\ pc = "done"

\* C8: on S -> A a | A b, A -> c | d with start S the pipeline yields
\* S -> A S', S' -> a | b, A -> c | d as factored and as final grammar,
\* FIRST(A) = FIRST(S) = {c, d}, FIRST(S') = {a, b},
\* FOLLOW(S) = FOLLOW(S') = {$}, FOLLOW(A) = {a, b}, and the table with
\* exactly (S,c), (S,d) -> A S', (S',a) -> a, (S',b) -> b, (A,c) -> c, (A,d) -> d.
C8_Scenario ==
    ScenarioRan =>
        LET Sp == <<"S", "'">>
            a == <<"a">>  b == <<"b">>  c == <<"c">>  d == <<"d">>
            expected == [A \in {NameS, Sp, NameA} |->
                            IF A = NameS THEN <<<<NameA, Sp>>>>
                            ELSE IF A = Sp THEN <<<<a>>, <<b>>>>
                            ELSE <<<<c>>, <<d>>>>]
        IN  /\ AsSymbols(factoredGrammar) = expected
            /\ AsSymbols(finalGrammar) = expected
            /\ firstSets = [A \in {NameS, Sp, NameA} |->
                               IF A = Sp THEN {a, b} ELSE {c, d}]
            /\ followSets = [A \in {NameS, Sp, NameA} |->
                                IF A = NameA THEN {a, b} ELSE {EndMarker}]
            /\ TableAsSymbols(parsingTable) =
                  [A \in {NameS, Sp, NameA} |->
                      IF A = NameS THEN [t \in {c, d} |-> <<NameA, Sp>>]
                      ELSE IF A = Sp THEN [t \in {a, b} |-> <<t>>]
                      ELSE [t \in {c, d} |-> <<t>>]]

C8_Witness == ScenarioRan /\ Cardinality(DOMAIN parsingTable) = 3

\* A is left-recursive in the factored grammar and its fresh name A' is
\* already a key of the factored grammar.
Collides(A) ==
    /\ A \in DOMAIN factoredGrammar
    /\ A \o Prime \in DOMAIN factoredGrammar
    /\ \E i \in 1..Len(factoredGrammar[A]) :
          IsPrefixOf(<<A>>, Symbols(factoredGrammar[A][i]))

\* The entry the eliminator writes for the fresh non-terminal of A: the
\* recursive alternatives without their first symbol, each followed by
\* A', and then epsilon.
EliminatorEntry(A) ==
    LET rec == SelectSeq(AsSymbols(factoredGrammar)[A],
                         LAMBDA ts : IsPrefixOf(<<A>>, ts))
    IN  [i \in 1..Len(rec) |-> Tail(rec[i]) \o <<A \o Prime>>] \o <<<<Epsilon>>>>

\* The entry the eliminator writes for A itself: the productions of A
\* when none begins with A, else the others, each followed by A'.
OwnEntry(A) ==
    LET all == AsSymbols(factoredGrammar)[A]
        rest == SelectSeq(all, LAMBDA ts : ~IsPrefixOf(<<A>>, ts))
    IN  IF Len(rest) = Len(all) THEN all
        ELSE [i \in 1..Len(rest) |-> rest[i] \o <<A \o Prime>>]

\* C9 as claimed: after the elimination pass the entry of A' is the one
\* the eliminator wrote for the left-recursive A.
C9_EliminatorEntryStays ==
    EliminationDone =>
        \A A \in DOMAIN factoredGrammar :
            Collides(A) => AsSymbols(finalGrammar)[A \o Prime] = EliminatorEntry(A)

\* C9: when A is left-recursive and A' is already a key of the factored
\* grammar, the entry of A' after the elimination pass is the one the
\* later call for A' writes from the factored productions of A'; what the
\* call for A wrote under A' is overwritten.
C9_OwnEntryStays ==
    EliminationDone =>
        \A A \in DOMAIN factoredGrammar :
            Collides(A) =>
                /\ AsSymbols(finalGrammar)[A \o Prime] = OwnEntry(A \o Prime)
                /\ (\A i \in 1..Len(factoredGrammar[A \o Prime]) :
                       ~IsPrefixOf(<<A \o Prime>>, Symbols(factoredGrammar[A \o Prime][i])))
                      => finalGrammar[A \o Prime] = factoredGrammar[A \o Prime]

\* The left factorer made A', A is left-recursive, and the entry the
\* eliminator wrote for A is gone.
C9_Witness ==
    /\ EliminationDone
    /\ \E k \in 1..Len(allocated) :
          LET A == allocated[k].nonTerminal
          IN  /\ allocated[k].newNT = A \o Prime
              /\ Collides(A)
              /\ AsSymbols(finalGrammar)[A \o Prime] # EliminatorEntry(A)

\* C10 as claimed: the first two fresh names of a pass are bare, the
\* later ones carry the counter.
C10_SecondNameBare ==
    \A i \in 1..Len(allocated) :
        LET r == allocated[i]
        IN  r.newNT = IF i - 1 > 1
                      THEN r.nonTerminal \o Prime \o to_string(r.count)
                      ELSE r.nonTerminal \o Prime

\* C10: with one counter for the whole pass, starting at 1, only the
\* first fresh name is the original name with a bare '; every later one
\* also carries the counter, which is then the number of names allocated
\* before it plus one.
C10_OnlyFirstNameBare ==
    \A i \in 1..Len(allocated) :
        LET r == allocated[i]
        IN  /\ r.count = i
            /\ r.newNT = IF i > 1
                         THEN r.nonTerminal \o Prime \o to_string(i)
                         ELSE r.nonTerminal \o Prime
            /\ r.newNT \in DOMAIN factoredGrammar

\* Three names have been allocated in one pass.
C10_Witness ==
    /\ FactoringDone
    /\ Len(allocated) >= 3
    /\ newNTcount = Len(allocated) + 1

\* C11: when every production of the input grammar is non-empty and is the
\* single symbol epsilon or has no epsilon in it, so is every production of
\* the left-factored grammar and of the final grammar.
C11_NoMixedEpsilon ==
    WellFormed(grammar) =>
        /\ FactoringDone => WellFormed(factoredGrammar)
        /\ EliminationDone => WellFormed(finalGrammar)

====
